---- MODULE Spec2Model ----
(***************************************************************************)
(* ResumeApp: registration, login, JWT bearer authentication and the       *)
(* owner-scoped resume CRUD of src/api/routers.py, src/services/           *)
(* auth_service.py and src/database/crud.py.                               *)
(*                                                                         *)
(* The database is two tables (user, resume) with autoincrement keys; every*)
(* HTTP request is one action that runs the handler on the tables and      *)
(* leaves the request and its response in req / resp. Registration is also *)
(* given in the two steps its awaits cut it into (register_check,          *)
(* register_create), for the runs in which registrations interleave.       *)
(***************************************************************************)
EXTENDS Integers, Sequences, FiniteSets, TLC

\* ------------------------------------------------------------------ bounds
MaxRequests == 2         \* registrations that may be in flight side by side
MaxResumes == 2          \* rows the resume table may ever receive
MaxMinutes == 2          \* the clock stops after this many whole minutes
MaxFine    == 3          \* sub-minute clock ticks explored after each minute
MaxTtl     == 2          \* largest configured token lifetime, in minutes
TicksPerSecond == 2      \* clock resolution: ticks in one second

\* ------------------------------------------------------- program constants
SecondsPerMinute == 60   \* timedelta(minutes=...)
MinPasswordLen   == 8    \* UserRegistration.password min_length
MaxPasswordLen   == 128  \* UserRegistration.password max_length
BcryptMaxBytes   == 72   \* bcrypt reads only the first 72 bytes of a secret

TicksPerMinute == SecondsPerMinute * TicksPerSecond
MaxNow == MaxMinutes * TicksPerMinute + MaxFine

\* Python's None: where a row or a record is expected, and where a string is.
None == [none |-> TRUE]
Null == "<None>"

\* ------------------------------------------------------------- input sets
Emails  == {"a@x.com", "b@x.com"}
Ghost   == "ghost@x.com"             \* an address that never registers
Clients == {"c1"}
Salts   == {1, 2}

\* A password is the string made of min(n, 72) copies of the character a
\* followed by max(0, n - 72) copies of the character b; b is "" when the
\* password has no byte beyond the 72nd.  Two such strings are equal exactly
\* when their records are equal.
Pw(n, a, b) == [n |-> n, a |-> a, b |-> IF n > BcryptMaxBytes THEN b ELSE ""]
PwShort   == Pw(8, "p", "")
PwOther   == Pw(8, "q", "")
PwTiny    == Pw(7, "p", "")
PwEdge    == Pw(72, "p", "")
PwLongX   == Pw(128, "p", "x")
PwLongY   == Pw(128, "p", "y")
PwHuge    == Pw(129, "p", "x")
Passwords == {PwShort, PwOther, PwTiny, PwEdge, PwLongX, PwLongY, PwHuge}

Titles   == {"T1", "T2"}
Contents == {"C1", "C2"}

\* ------------------------------------------------------------------ state
VARIABLES
    users,          \* table "user": rows [id, email, hashed_password]
    user_id_seq,    \* last value of user.id autoincrement
    resumes,        \* table "resume": rows [id, title, content, user_id]
    resume_id_seq,  \* last value of resume.id autoincrement
    now,            \* wall clock, in ticks since the epoch
    expire_min,     \* jwtsettings.ACCESS_TOKEN_EXPIRE_MIN, read once at start
    jar,            \* per client: the last Token response it received
    chosen,         \* per email: the password its registrant chose
    req,            \* the last request handled
    resp,           \* its response: [status, detail, body]
    inflight,       \* per registration in flight: how far register got with it
    calls           \* the DAO methods the last request invoked, in order

vars == <<users, user_id_seq, resumes, resume_id_seq, now, expire_min,
          jar, chosen, req, resp, inflight, calls>>

\* --------------------------------------------------------- PasswordHasher
\* bcrypt: the digest depends on the salt and on the first 72 bytes only.
Truncate(secret) ==
    IF secret.n > BcryptMaxBytes
    THEN [n |-> BcryptMaxBytes, a |-> secret.a, b |-> ""]
    ELSE secret

bcrypt(secret, salt) == [key |-> Truncate(secret), salt |-> salt]

hash_password(raw, salt) == [salt |-> salt, digest |-> bcrypt(raw, salt)]

verify_password(raw, hashed) == bcrypt(raw, hashed.salt) = hashed.digest

\* ----------------------------------------------------------- TokenService
JWT_SECRET == "JWT_SECRET"
OtherKey   == "not-the-secret"

\* The MAC of a payload under a key: a function of exactly those two.
Sign(payload, key) == [payload |-> payload, key |-> key]

jwt_encode(payload, key) ==
    [form |-> "jws", payload |-> payload, sig |-> Sign(payload, key)]

JWTError == [error |-> "JWTError"]

timestamp(t) == t \div TicksPerSecond

\* jose.jwt.decode: structure, signature, then the exp claim against the
\* whole-second clock; a token is expired when exp < now.
jwt_decode(token, key, clock) ==
    IF token.form # "jws" THEN JWTError
    ELSE IF token.sig # Sign(token.payload, key) THEN JWTError
    ELSE IF token.payload.exp < timestamp(clock) THEN JWTError
    ELSE token.payload

payload_get_sub(payload) ==
    IF "sub" \in DOMAIN payload THEN payload.sub ELSE Null

\* Mutant: the lifetime is added to the exp claim in seconds, not minutes.
create_access_token_seconds(sub, expires_minutes, clock) ==
    LET expire  == clock + expires_minutes * TicksPerMinute
        payload == [sub |-> sub,
                    iat |-> timestamp(clock),
                    exp |-> timestamp(clock) + expires_minutes]
    IN  [access_token |-> jwt_encode(payload, JWT_SECRET),
         token_type   |-> "bearer",
         expires_at   |-> expire]

create_access_token(sub, expires_minutes, clock) ==
    LET expire  == clock + expires_minutes * TicksPerMinute
        payload == [sub |-> sub,
                    iat |-> timestamp(clock),
                    exp |-> timestamp(expire)]
    IN  [access_token |-> jwt_encode(payload, JWT_SECRET),
         token_type   |-> "bearer",
         expires_at   |-> expire]

\* -------------------------------------------------------------- UserDAO
get_user_by_email(tbl, email) ==
    IF \E u \in tbl : u.email = email
    THEN CHOOSE u \in tbl : u.email = email
    ELSE None

create_user(tbl, seq, email, hashed_password) ==
    tbl \cup {[id |-> seq + 1, email |-> email,
               hashed_password |-> hashed_password]}

\* ------------------------------------------------------------ AccessGuard
NoHeader   == [form |-> "absent"]     \* no Authorization header
EmptyToken == [form |-> "empty"]      \* "Authorization: Bearer" and nothing
Garbage    == [form |-> "garbage"]    \* a string that is not a JWS
NoToken    == [none |-> "token"]      \* an empty jar
NoPassword == [none |-> "password"]   \* nobody registered the email

Authenticated(user) == [status |-> 200, detail |-> "", user |-> user]
Unauthorized(detail) == [status |-> 401, detail |-> detail, user |-> None]

\* Mutant: the payload is read without verifying the signature.
get_current_user_unverified(header, clock, tbl) ==
    IF header = NoHeader THEN Unauthorized("Not authenticated")
    ELSE IF header = EmptyToken THEN Unauthorized("Missing token")
    ELSE LET payload == IF header.form # "jws" THEN JWTError
                        ELSE IF header.payload.exp < timestamp(clock)
                        THEN JWTError
                        ELSE header.payload
         IN
         IF payload = JWTError THEN Unauthorized("Invalid or expired token")
         ELSE LET sub == payload_get_sub(payload) IN
              IF sub = Null \/ sub = "" THEN Unauthorized("Invalid token")
              ELSE LET user == get_user_by_email(tbl, sub) IN
                   IF user = None THEN Unauthorized("User not found")
                   ELSE Authenticated(user)

\* Mutant: an unknown subject is answered 404 instead of 401.
get_current_user_404(header, clock, tbl) ==
    IF header = NoHeader THEN Unauthorized("Not authenticated")
    ELSE IF header = EmptyToken THEN Unauthorized("Missing token")
    ELSE LET payload == jwt_decode(header, JWT_SECRET, clock) IN
         IF payload = JWTError THEN Unauthorized("Invalid or expired token")
         ELSE LET sub == payload_get_sub(payload) IN
              IF sub = Null \/ sub = "" THEN Unauthorized("Invalid token")
              ELSE LET user == get_user_by_email(tbl, sub) IN
                   IF user = None
                   THEN [status |-> 404, detail |-> "User not found",
                         user |-> None]
                   ELSE Authenticated(user)

\* oauth2_scheme followed by get_current_user.
get_current_user(header, clock, tbl) ==
    IF header = NoHeader THEN Unauthorized("Not authenticated")
    ELSE IF header = EmptyToken THEN Unauthorized("Missing token")
    ELSE LET payload == jwt_decode(header, JWT_SECRET, clock) IN
         IF payload = JWTError THEN Unauthorized("Invalid or expired token")
         ELSE LET sub == payload_get_sub(payload) IN
              IF sub = Null \/ sub = "" THEN Unauthorized("Invalid token")
              ELSE LET user == get_user_by_email(tbl, sub) IN
                   IF user = None THEN Unauthorized("User not found")
                   ELSE Authenticated(user)

\* ------------------------------------------------------------- ResumeDAO
ResumeOut(r) == [id |-> r.id, title |-> r.title, content |-> r.content]

get_all_by_user(tbl, user_id) == {r \in tbl : r.user_id = user_id}

\* Mutant: the lookup filters by id alone.
get_by_id_any_user(tbl, res_id, user_id) ==
    IF \E r \in tbl : r.id = res_id
    THEN CHOOSE r \in tbl : r.id = res_id
    ELSE None

get_by_id_for_user(tbl, res_id, user_id) ==
    IF \E r \in tbl : r.id = res_id /\ r.user_id = user_id
    THEN CHOOSE r \in tbl : r.id = res_id /\ r.user_id = user_id
    ELSE None

\* BaseDAO.add on the resume table: the row gets the next autoincrement id.
add_for_user(tbl, seq, user_id, title, content) ==
    LET obj == [id |-> seq + 1, title |-> title, content |-> content,
                user_id |-> user_id]
    IN  [tbl |-> tbl \cup {obj}, obj |-> obj]

\* Mutant: the row is fetched by id alone and then written.
update_for_any_user(tbl, res_id, user_id, fields) ==
    LET obj == get_by_id_any_user(tbl, res_id, user_id) IN
    IF obj = None THEN [tbl |-> tbl, obj |-> None]
    ELSE LET new == [k \in DOMAIN obj |->
                        IF k \in DOMAIN fields THEN fields[k] ELSE obj[k]]
         IN  [tbl |-> (tbl \ {obj}) \cup {new}, obj |-> new]

\* Mutant: the row is fetched by id alone and handed over to the caller.
update_for_user_reassign(tbl, res_id, user_id, fields) ==
    LET obj == get_by_id_any_user(tbl, res_id, user_id) IN
    IF obj = None THEN [tbl |-> tbl, obj |-> None]
    ELSE LET new == [k \in DOMAIN obj |->
                        IF k = "user_id" THEN user_id
                        ELSE IF k \in DOMAIN fields THEN fields[k] ELSE obj[k]]
         IN  [tbl |-> (tbl \ {obj}) \cup {new}, obj |-> new]

\* fields: a function from the supplied column names to their new values.
update_for_user(tbl, res_id, user_id, fields) ==
    LET obj == get_by_id_for_user(tbl, res_id, user_id) IN
    IF obj = None THEN [tbl |-> tbl, obj |-> None]
    ELSE LET new == [k \in DOMAIN obj |->
                        IF k \in DOMAIN fields THEN fields[k] ELSE obj[k]]
         IN  [tbl |-> (tbl \ {obj}) \cup {new}, obj |-> new]

delete_for_user(tbl, res_id, user_id) ==
    LET obj == get_by_id_for_user(tbl, res_id, user_id) IN
    IF obj = None THEN [tbl |-> tbl, obj |-> None]
    ELSE [tbl |-> tbl \ {obj}, obj |-> obj]

\* ---------------------------------------------------------------- replies
Reply(status, detail, body) ==
    [status |-> status, detail |-> detail, body |-> body]

HTTPException(status, detail) == Reply(status, detail, None)

\* The two Russian detail strings of the public endpoints, in ASCII.
DuplicateEmail == "user with this email already exists"
BadCredentials == "invalid credentials"

\* ------------------------------------------------------------------- Init
\* The registrations that may run side by side, and where one of them is:
\* not sent yet, between its email lookup and its insert, or answered.
RegIds == 1 .. MaxRequests

Idle == [stage |-> "idle"]
Checked(c, body) == [stage |-> "checked", client |-> c, body |-> body]
Done(c, body, reply) ==
    [stage |-> "done", client |-> c, body |-> body, reply |-> reply]

NoRequest == [op |-> "none", at |-> 0]

InitWith(ttls) ==
    /\ users = {}
    /\ user_id_seq = 0
    /\ resumes = {}
    /\ resume_id_seq = 0
    /\ now = 0
    /\ expire_min \in ttls
    /\ jar = [c \in Clients |-> NoToken]
    /\ chosen = [e \in Emails |-> NoPassword]
    /\ req = NoRequest
    /\ resp = Reply(0, "", None)
    /\ inflight = [k \in RegIds |-> Idle]
    /\ calls = <<>>

\* ------------------------------------------------------------ public API
\* UserRegistration: the password is 8 to 128 characters long.
UserRegistration_valid(body) ==
    body.password.n >= MinPasswordLen /\ body.password.n <= MaxPasswordLen

\* Mutant: a registered email is registered again over the old row.
register_overwrite(c, email, password, salt) ==
    LET body   == [email |-> email, password |-> password]
        old    == get_user_by_email(users, email)
        hashed == hash_password(password, salt)
        token  == create_access_token(email, expire_min, now)
    IN
    /\ req' = [op |-> "register", at |-> now, body |-> body]
    /\ UNCHANGED <<resumes, resume_id_seq, now, expire_min, inflight>>
    /\ IF ~UserRegistration_valid(body)
       THEN /\ resp' = HTTPException(422, "validation error")
            /\ calls' = <<>>
            /\ UNCHANGED <<users, user_id_seq, jar, chosen>>
       ELSE /\ users' = create_user(users \ {old}, user_id_seq, email, hashed)
            /\ user_id_seq' = user_id_seq + 1
            /\ resp' = Reply(200, "", token)
            /\ calls' = <<"get_user_by_email", "create_user">>
            /\ jar' = [jar EXCEPT ![c] = token]
            /\ chosen' = [chosen EXCEPT ![email] = password]

\* POST /api/user/registration.  salt is the salt bcrypt draws.
register(c, email, password, salt) ==
    LET body == [email |-> email, password |-> password] IN
    /\ req' = [op |-> "register", at |-> now, body |-> body]
    /\ UNCHANGED <<resumes, resume_id_seq, now, expire_min, inflight>>
    /\ IF ~UserRegistration_valid(body)
       THEN /\ resp' = HTTPException(422, "validation error")
            /\ calls' = <<>>
            /\ UNCHANGED <<users, user_id_seq, jar, chosen>>
       ELSE IF get_user_by_email(users, email) # None
       THEN /\ resp' = HTTPException(400, DuplicateEmail)
            /\ calls' = <<"get_user_by_email">>
            /\ UNCHANGED <<users, user_id_seq, jar, chosen>>
       ELSE LET hashed == hash_password(password, salt)
                token  == create_access_token(email, expire_min, now)
            IN  /\ users' = create_user(users, user_id_seq, email, hashed)
                /\ user_id_seq' = user_id_seq + 1
                /\ resp' = Reply(200, "", token)
                /\ calls' = <<"get_user_by_email", "create_user">>
                /\ jar' = [jar EXCEPT ![c] = token]
                /\ chosen' = [chosen EXCEPT ![email] = password]

\* Mutant: the email column is declared without unique=True.
IntegrityError_never(tbl, email) == FALSE

\* The unique constraint of user.email: the INSERT of an email some row
\* already carries raises IntegrityError and inserts nothing.
IntegrityError(tbl, email) == \E u \in tbl : u.email = email

\* register as the event loop runs it next to other requests. Its two DAO
\* calls open a session each, and other requests run while it awaits them.
\* First step, up to the email lookup: registration k is answered 422 or 400,
\* or goes on to its insert.
register_check(k, c, email, password) ==
    LET body == [email |-> email, password |-> password] IN
    /\ inflight[k] = Idle
    /\ inflight' = [inflight EXCEPT ![k] =
          IF ~UserRegistration_valid(body)
          THEN Done(c, body, HTTPException(422, "validation error"))
          ELSE IF get_user_by_email(users, email) # None
          THEN Done(c, body, HTTPException(400, DuplicateEmail))
          ELSE Checked(c, body)]
    /\ UNCHANGED <<users, user_id_seq, resumes, resume_id_seq, now, expire_min,
                   jar, chosen, req, resp, calls>>

\* Second step: hash, create_user, token. The handler catches nothing, so an
\* IntegrityError of the insert leaves as the 500 of the framework; the id
\* sequence has moved by then (PostgreSQL draws the id before the check).
register_create(k, salt) ==
    /\ inflight[k].stage = "checked"
    /\ LET body   == inflight[k].body
           c      == inflight[k].client
           hashed == hash_password(body.password, salt)
           token  == create_access_token(body.email, expire_min, now)
       IN
       /\ user_id_seq' = user_id_seq + 1
       /\ IF IntegrityError(users, body.email)
          THEN /\ inflight' = [inflight EXCEPT ![k] =
                     Done(c, body, HTTPException(500, "Internal Server Error"))]
               /\ UNCHANGED <<users, jar, chosen>>
          ELSE /\ users' = create_user(users, user_id_seq, body.email, hashed)
               /\ inflight' = [inflight EXCEPT ![k] =
                     Done(c, body, Reply(200, "", token))]
               /\ jar' = [jar EXCEPT ![c] = token]
               /\ chosen' = [chosen EXCEPT ![body.email] = body.password]
    /\ UNCHANGED <<resumes, resume_id_seq, now, expire_min, req, resp, calls>>

\* Mutant: an unknown email gets an answer of its own.
login_do_404(tbl, body, expires_minutes, clock) ==
    LET user == get_user_by_email(tbl, body.email) IN
    IF user = None THEN HTTPException(404, "User not found")
    ELSE IF ~verify_password(body.password, user.hashed_password)
    THEN HTTPException(401, BadCredentials)
    ELSE Reply(200, "", create_access_token(body.email, expires_minutes, clock))

\* The reply of POST /api/user/login.
login_do(tbl, body, expires_minutes, clock) ==
    LET user == get_user_by_email(tbl, body.email) IN
    IF user = None \/ ~verify_password(body.password, user.hashed_password)
    THEN HTTPException(401, BadCredentials)
    ELSE Reply(200, "", create_access_token(body.email, expires_minutes, clock))

\* POST /api/user/login.
login(c, email, password) ==
    LET body  == [email |-> email, password |-> password]
        reply == login_do(users, body, expire_min, now)
    IN
    /\ req' = [op |-> "login", at |-> now, body |-> body]
    /\ calls' = <<"get_user_by_email">>
    /\ resp' = reply
    /\ jar' = IF reply.status = 200 THEN [jar EXCEPT ![c] = reply.body] ELSE jar
    /\ UNCHANGED <<users, user_id_seq, resumes, resume_id_seq, now,
                   expire_min, inflight, chosen>>

\* ------------------------------------------------------------------ clock
\* One clock tick passes.
Tick ==
    /\ now % TicksPerMinute < MaxFine
    /\ now' = now + 1
    /\ UNCHANGED <<users, user_id_seq, resumes, resume_id_seq, expire_min, inflight,
                   jar, chosen, req, resp, calls>>

\* One minute passes.
Wait ==
    /\ now + TicksPerMinute <= MaxNow
    /\ now' = now + TicksPerMinute
    /\ UNCHANGED <<users, user_id_seq, resumes, resume_id_seq, expire_min, inflight,
                   jar, chosen, req, resp, calls>>

\* ------------------------------------------------- Authorization headers
\* What a client can make of a token it holds without the secret: the same
\* signature over a payload naming another subject, and a longer-lived
\* payload signed with a key of its own.
Tampered(t) ==
    {[t EXCEPT !.payload.sub = e] : e \in Emails \ {t.payload.sub}}
    \cup {jwt_encode([t.payload EXCEPT !.exp = @ + SecondsPerMinute], OtherKey)}

\* Tokens another issuer signed with the same secret: one without a subject,
\* one whose subject has no row in this database.
ForeignTokens ==
    LET far == timestamp(MaxNow) + 1 IN
    {jwt_encode([iat |-> 0, exp |-> far], JWT_SECRET),
     jwt_encode([sub |-> Ghost, iat |-> 0, exp |-> far], JWT_SECRET)}

\* Every header a client can send.
Headers(c) ==
    {NoHeader, EmptyToken, Garbage} \cup ForeignTokens
    \cup (IF jar[c] = NoToken THEN {}
          ELSE {jar[c].access_token} \cup Tampered(jar[c].access_token))

\* The header of a well-behaved client: its token, or none.
OwnHeader(c) ==
    IF jar[c] = NoToken THEN {NoHeader} ELSE {NoHeader, jar[c].access_token}

\* The DAO call get_current_user makes: the lookup of the subject, once the
\* token decoded and carries one.
auth_calls(auth) ==
    IF auth.status = 200 \/ auth.detail = "User not found"
    THEN <<"get_user_by_email">> ELSE <<>>

Request(op, header, auth, res_id, body) ==
    [op |-> op, at |-> now, header |-> header, current_user |-> auth.user,
     res_id |-> res_id, body |-> body]

ResIds == 1 .. MaxResumes

\* ---------------------------------------------------------- resume API
\* What a handler does once get_current_user returned current_user: its
\* reply, the resume table it leaves, and the ResumeDAO method it invoked.
Outcome(reply, tbl, call) == [reply |-> reply, tbl |-> tbl, call |-> call]

NotFound == HTTPException(404, "Resume not found")

\* GET /resume/
list_resumes_do(tbl, current_user) ==
    Outcome(Reply(200, "",
                  {ResumeOut(r) : r \in get_all_by_user(tbl, current_user.id)}),
            tbl, <<"get_all_by_user">>)

\* Mutant: fetch by id, then check the owner in the handler and say so.
get_resume_do_forbidden(tbl, current_user, res_id) ==
    LET item == get_by_id_any_user(tbl, res_id, current_user.id) IN
    Outcome(IF item = None THEN NotFound
            ELSE IF item.user_id # current_user.id
            THEN HTTPException(403, "Forbidden")
            ELSE Reply(200, "", ResumeOut(item)),
            tbl, <<"get_by_id_for_user">>)

\* GET /resume/{res_id}
get_resume_do(tbl, current_user, res_id) ==
    LET item == get_by_id_for_user(tbl, res_id, current_user.id) IN
    Outcome(IF item = None THEN NotFound ELSE Reply(200, "", ResumeOut(item)),
            tbl, <<"get_by_id_for_user">>)

\* GET /resume/{res_id}/improve: the row is read, its content is extended in
\* the reply only, and nothing is written.
\* The row is taken to offer the mapping interface the handler
\* uses on it (Base, database/models/base.py).
improve_resume_do(tbl, current_user, res_id) ==
    LET item == get_by_id_for_user(tbl, res_id, current_user.id) IN
    Outcome(IF item = None THEN NotFound
            ELSE Reply(200, "", [ResumeOut(item) EXCEPT
                                    !.content = @ \o " [Improved]"]),
            tbl, <<"get_by_id_for_user">>)

\* ResumeCreate: the declared fields of the JSON body sent; pydantic drops
\* every other key.
ResumeCreate(raw) == [title |-> raw.title, content |-> raw.content]

\* ResumeUpdate: title and content, each a string or None; other keys of the
\* JSON body are dropped.
ResumeUpdate(raw) == [title |-> raw.title, content |-> raw.content]

\* Mutant: body.dict() as it is, None entries included.
effective_fields_unfiltered(body) == body

\* body.dict() without the entries whose value is None.
effective_fields(body) ==
    [k \in {f \in DOMAIN body : body[f] # Null} |-> body[k]]

\* Mutant: the handler goes to the store without looking at data.
update_resume_do_unchecked(tbl, current_user, res_id, body) ==
    LET data == effective_fields(body)
        r    == update_for_user(tbl, res_id, current_user.id, data)
    IN  Outcome(IF r.obj = None THEN NotFound
                ELSE Reply(200, "", ResumeOut(r.obj)),
                r.tbl, <<"update_for_user">>)

\* PUT /resume/{res_id}
update_resume_do(tbl, current_user, res_id, body) ==
    LET data == effective_fields(body) IN
    IF DOMAIN data = {}
    THEN Outcome(HTTPException(400, "Nothing to update"), tbl, <<>>)
    ELSE LET r == update_for_user(tbl, res_id, current_user.id, data) IN
         Outcome(IF r.obj = None THEN NotFound
                 ELSE Reply(200, "", ResumeOut(r.obj)),
                 r.tbl, <<"update_for_user">>)

\* DELETE /resume/{res_id}
delete_resume_do(tbl, current_user, res_id) ==
    LET r == delete_for_user(tbl, res_id, current_user.id) IN
    Outcome(IF r.obj = None THEN NotFound ELSE Reply(200, "", ResumeOut(r.obj)),
            r.tbl, <<"delete_for_user">>)

\* A request to the protected router: Depends(get_current_user), then the
\* handler; out is the handler's outcome under the resolved user.
Protected(op, header, res_id, body, auth, out) ==
    /\ req' = Request(op, header, auth, res_id, body)
    /\ UNCHANGED <<users, user_id_seq, now, expire_min, inflight, jar, chosen>>
    /\ IF auth.status # 200
       THEN /\ resp' = HTTPException(auth.status, auth.detail)
            /\ calls' = auth_calls(auth)
            /\ UNCHANGED resumes
       ELSE /\ resp' = out.reply
            /\ calls' = auth_calls(auth) \o out.call
            /\ resumes' = out.tbl

list_resumes(header) ==
    LET auth == get_current_user(header, now, users) IN
    /\ Protected("list_resumes", header, 0, None, auth,
                 list_resumes_do(resumes, auth.user))
    /\ UNCHANGED resume_id_seq

\* Mutant: a user_id sent in the body decides the owner of the new row.
create_resume_body_owner(header, raw) ==
    LET auth == get_current_user(header, now, users)
        body == ResumeCreate(raw)
    IN
    /\ resume_id_seq < MaxResumes
    /\ req' = Request("create_resume", header, auth, 0, raw)
    /\ UNCHANGED <<users, user_id_seq, now, expire_min, inflight, jar, chosen>>
    /\ IF auth.status # 200
       THEN /\ resp' = HTTPException(auth.status, auth.detail)
            /\ calls' = auth_calls(auth)
            /\ UNCHANGED <<resumes, resume_id_seq>>
       ELSE LET owner == IF "user_id" \in DOMAIN raw THEN raw.user_id
                         ELSE auth.user.id
                r == add_for_user(resumes, resume_id_seq, owner,
                                  body.title, body.content)
            IN  /\ resumes' = r.tbl
                /\ resume_id_seq' = resume_id_seq + 1
                /\ resp' = Reply(201, "", ResumeOut(r.obj))
                /\ calls' = Append(auth_calls(auth), "add_for_user")

\* POST /resume/; raw is the JSON body sent, body what ResumeCreate makes of it.
create_resume(header, raw) ==
    LET auth == get_current_user(header, now, users)
        body == ResumeCreate(raw)
    IN
    /\ resume_id_seq < MaxResumes
    /\ req' = Request("create_resume", header, auth, 0, raw)
    /\ UNCHANGED <<users, user_id_seq, now, expire_min, inflight, jar, chosen>>
    /\ IF auth.status # 200
       THEN /\ resp' = HTTPException(auth.status, auth.detail)
            /\ calls' = auth_calls(auth)
            /\ UNCHANGED <<resumes, resume_id_seq>>
       ELSE LET r == add_for_user(resumes, resume_id_seq, auth.user.id,
                                  body.title, body.content)
            IN  /\ resumes' = r.tbl
                /\ resume_id_seq' = resume_id_seq + 1
                /\ resp' = Reply(201, "", ResumeOut(r.obj))
                /\ calls' = Append(auth_calls(auth), "add_for_user")

get_resume(header, res_id) ==
    LET auth == get_current_user(header, now, users) IN
    /\ Protected("get_resume", header, res_id, None, auth,
                 get_resume_do(resumes, auth.user, res_id))
    /\ UNCHANGED resume_id_seq

improve_resume(header, res_id) ==
    LET auth == get_current_user(header, now, users) IN
    /\ Protected("improve_resume", header, res_id, None, auth,
                 improve_resume_do(resumes, auth.user, res_id))
    /\ UNCHANGED resume_id_seq

\* raw is the JSON body sent; the handler sees ResumeUpdate(raw).
update_resume(header, res_id, raw) ==
    LET auth == get_current_user(header, now, users) IN
    /\ Protected("update_resume", header, res_id, raw, auth,
                 update_resume_do(resumes, auth.user, res_id, ResumeUpdate(raw)))
    /\ UNCHANGED resume_id_seq

delete_resume(header, res_id) ==
    LET auth == get_current_user(header, now, users) IN
    /\ Protected("delete_resume", header, res_id, None, auth,
                 delete_resume_do(resumes, auth.user, res_id))
    /\ UNCHANGED resume_id_seq

\* --------------------------------------------------------- specifications
\* JSON bodies: the declared fields, and bodies that also carry a user_id.
CreateBodies ==
    {[title |-> "T1", content |-> "C1"],
     [title |-> "T1", content |-> "C1", user_id |-> 1]}
UpdateBodies ==
    [title : {Null, "T2"}, content : {Null, "C2"}]
    \cup {[title |-> "T2", content |-> Null, user_id |-> 1]}

\* One body per route is enough in front of the guard.
GuardCreateBodies == {[title |-> "T1", content |-> "C1"]}
GuardUpdateBodies == {[title |-> "T2", content |-> Null]}

\* The whole service while the tokens issued are fresh: clients register,
\* log in and work on resumes with the token they hold or with none.
Init == InitWith({1})

Next ==
    \/ \E c \in Clients, e \in Emails : register(c, e, PwShort, 1)
    \/ \E c \in Clients, e \in Emails, p \in {PwShort, PwOther} : login(c, e, p)
    \/ \E c \in Clients : \E h \in OwnHeader(c) : list_resumes(h)
    \/ \E c \in Clients : \E h \in OwnHeader(c), b \in CreateBodies :
          create_resume(h, b)
    \/ \E c \in Clients : \E h \in OwnHeader(c), i \in ResIds : get_resume(h, i)
    \/ \E c \in Clients : \E h \in OwnHeader(c), i \in ResIds :
          improve_resume(h, i)
    \/ \E c \in Clients : \E h \in OwnHeader(c), i \in ResIds, b \in UpdateBodies :
          update_resume(h, i, b)
    \/ \E c \in Clients : \E h \in OwnHeader(c), i \in ResIds : delete_resume(h, i)

Spec == Init /\ [][Next]_vars

\* Registration and login alone, over every password and salt.
InitCred == InitWith({1})

NextCred ==
    \/ \E c \in Clients, e \in Emails, p \in Passwords, s \in Salts :
          register(c, e, p, s)
    \/ \E c \in Clients, e \in Emails, p \in Passwords : login(c, e, p)

SpecCred == InitCred /\ [][NextCred]_vars

\* Tokens over time: any configured lifetime, a clock that moves by ticks
\* and by minutes, and every header a client can send to a protected route.
InitTok == InitWith(1 .. MaxTtl)

NextTok ==
    \/ \E c \in Clients, e \in Emails : register(c, e, PwShort, 1)
    \/ \E c \in Clients, e \in Emails : login(c, e, PwShort)
    \/ \E c \in Clients : \E h \in Headers(c) : list_resumes(h)
    \/ Tick
    \/ Wait

SpecTok == InitTok /\ [][NextTok]_vars

\* Tokens this service signed for its users before the run began, expired
\* since.
StaleTokens ==
    {jwt_encode([sub |-> e, iat |-> 0 - 2 * SecondsPerMinute, exp |-> 0 - 1],
                JWT_SECRET) : e \in Emails}

GuardHeaders(c) == Headers(c) \cup StaleTokens

\* The access guard in front of every resume route: any header a client can
\* send, on any route.
InitGuard == InitWith({1})

NextGuard ==
    \/ \E c \in Clients, e \in Emails : register(c, e, PwShort, 1)
    \/ \E c \in Clients, e \in Emails : login(c, e, PwShort)
    \/ \E c \in Clients : \E h \in GuardHeaders(c) : list_resumes(h)
    \/ \E c \in Clients : \E h \in GuardHeaders(c), b \in GuardCreateBodies :
          create_resume(h, b)
    \/ \E c \in Clients : \E h \in GuardHeaders(c), i \in ResIds : get_resume(h, i)
    \/ \E c \in Clients : \E h \in GuardHeaders(c), i \in ResIds :
          improve_resume(h, i)
    \/ \E c \in Clients : \E h \in GuardHeaders(c), i \in ResIds, b \in GuardUpdateBodies :
          update_resume(h, i, b)
    \/ \E c \in Clients : \E h \in GuardHeaders(c), i \in ResIds : delete_resume(h, i)

SpecGuard == InitGuard /\ [][NextGuard]_vars

\* Registrations side by side: each is sent once and takes its two steps
\* whenever the event loop gives it the turn.
InitReg == InitWith({1})

NextReg ==
    \/ \E k \in RegIds, c \in Clients, e \in Emails :
          \E p \in {PwShort, PwOther, PwTiny} : register_check(k, c, e, p)
    \/ \E k \in RegIds : register_create(k, 1)

SpecReg == InitReg /\ [][NextReg]_vars

\* ================================================================ claims
\* The last request reached a resume handler under an authenticated user.
Handled(ops) == req.op \in ops /\ req.current_user # None

\* The rows with the requested id that belong to somebody else.
ForeignRows(tbl, r) == {x \in tbl : x.id = r.res_id /\ x.user_id # r.current_user.id}

ResumeDAOCalls ==
    {"get_all_by_user", "get_by_id_for_user", "add_for_user",
     "update_for_user", "delete_for_user"}

\* Ids no row of the table carries.
AbsentIds(tbl) == (1 .. (MaxResumes + 1)) \ {x.id : x \in tbl}

\* C1: no read by user B returns a resume of another user A: get_resume of
\* such a resume's id answers NotFound, a successful get_resume (or
\* improve_resume) returns a row B owns, and list_resumes holds exactly the
\* rows B owns.
C1_NoCrossUserRead ==
    /\ Handled({"get_resume", "improve_resume"}) =>
          /\ ForeignRows(resumes, req) # {} => resp = NotFound
          /\ resp.status = 200 =>
                \E x \in resumes : /\ x.user_id = req.current_user.id
                                   /\ x.id = req.res_id
                                   /\ resp.body.id = x.id
                                   /\ resp.body.title = x.title
                                   /\ req.op = "get_resume"
                                      => resp.body = ResumeOut(x)
    /\ Handled({"list_resumes"}) =>
          /\ resp.status = 200
          /\ \A x \in resumes :
                (ResumeOut(x) \in resp.body) <=> (x.user_id = req.current_user.id)
          /\ \A item \in resp.body : \E x \in resumes : item = ResumeOut(x)

\* B asked for A's resume by its id and got NotFound.
C1_Witness ==
    /\ Handled({"get_resume"})
    /\ ForeignRows(resumes, req) # {}
    /\ resp = NotFound

\* C2: update_resume and delete_resume issued by a user who does not own the
\* resume with that id leave the whole resume table as it was.
C2_ForeignWriteIsNoOp ==
    [][(/\ req'.op \in {"update_resume", "delete_resume"}
        /\ req'.current_user # None
        /\ ForeignRows(resumes, req') # {})
       => resumes' = resumes]_vars

\* B tried to delete A's resume; the row is still there, and so is another.
C2_Witness ==
    /\ Handled({"delete_resume"})
    /\ ForeignRows(resumes, req) # {}
    /\ Cardinality(resumes) = MaxResumes

\* The reply of a handler to user u for resume id i and body b.
ReplyTo(op, tbl, u, i, b) ==
    CASE op = "get_resume"    -> get_resume_do(tbl, u, i).reply
      [] op = "update_resume" -> update_resume_do(tbl, u, i, ResumeUpdate(b)).reply
      [] op = "delete_resume" -> delete_resume_do(tbl, u, i).reply

\* C3: get_resume, update_resume with an effective field, and delete_resume
\* answer a caller who does not own the existing resume exactly as they
\* answer the same caller for an id no resume has: with NotFound.
C3_ForeignLooksAbsent ==
    [][(/\ req'.op \in {"get_resume", "update_resume", "delete_resume"}
        /\ req'.current_user # None
        /\ req'.op = "update_resume" => DOMAIN effective_fields(ResumeUpdate(req'.body)) # {}
        /\ ForeignRows(resumes, req') # {})
       => /\ resp' = NotFound
          /\ \A j \in AbsentIds(resumes) :
                resp' = ReplyTo(req'.op, resumes, req'.current_user, j, req'.body)]_vars

\* B sent an update with a new title for A's resume and got NotFound.
C3_Witness ==
    /\ Handled({"update_resume"})
    /\ DOMAIN effective_fields(ResumeUpdate(req.body)) # {}
    /\ ForeignRows(resumes, req) # {}
    /\ resp = NotFound

\* C10: an authenticated update_resume whose title and content are both null
\* is answered InvalidUpdate whatever the id, no ResumeDAO method is invoked
\* and the resume table stays as it was.
C10_EmptyUpdateRejected ==
    [][(/\ req'.op = "update_resume"
        /\ req'.current_user # None
        /\ req'.body.title = Null
        /\ req'.body.content = Null)
       => /\ resp' = HTTPException(400, "Nothing to update")
          /\ \A k \in 1 .. Len(calls') : calls'[k] \notin ResumeDAOCalls
          /\ resumes' = resumes]_vars

\* An empty update for an id no resume of the caller has: InvalidUpdate, not
\* NotFound.
C10_Witness ==
    /\ Handled({"update_resume"})
    /\ req.body.title = Null /\ req.body.content = Null
    /\ get_by_id_for_user(resumes, req.res_id, req.current_user.id) = None
    /\ resumes # {}
    /\ resp.status = 400

\* C4: registering an email that is already registered is answered
\* DuplicateCredential whatever password the request carries, and the user
\* table, with the first credential's hash, stays as it was.
C4_DuplicateEmailRejected ==
    [][(/\ req'.op = "register"
        /\ UserRegistration_valid(req'.body)
        /\ get_user_by_email(users, req'.body.email) # None)
       => /\ resp' = HTTPException(400, DuplicateEmail)
          /\ users' = users
          /\ user_id_seq' = user_id_seq]_vars

\* A second registration with another password was refused, and the first
\* password still verifies against the stored hash.
C4_Witness ==
    /\ req.op = "register"
    /\ resp = HTTPException(400, DuplicateEmail)
    /\ chosen[req.body.email] # NoPassword
    /\ req.body.password # chosen[req.body.email]
    /\ verify_password(chosen[req.body.email],
                       get_user_by_email(users, req.body.email).hashed_password)

\* C5: once register(e, p) succeeded, login(e, q) returns a token when q = p
\* and InvalidCredentials when q differs from p.
C5_LoginIffSamePassword ==
    (req.op = "login" /\ chosen[req.body.email] # NoPassword)
    => IF req.body.password = chosen[req.body.email]
       THEN resp.status = 200
       ELSE resp = HTTPException(401, BadCredentials)

\* C9: a login refused because the email is unknown and one refused because
\* the password is wrong get the same reply: the reply to the last refused
\* login is the reply to every login that would be refused now.
C9_LoginRepliesAlike ==
    (req.op = "login" /\ resp.status # 200)
    => /\ resp = HTTPException(401, BadCredentials)
       /\ \A e \in Emails \cup {Ghost}, q \in Passwords :
             LET r == login_do(users, [email |-> e, password |-> q],
                               expire_min, now)
             IN  r.status # 200 => r = resp

\* A login for an unknown email was refused while a registered email has a
\* wrong password to be refused with.
C9_Witness ==
    /\ req.op = "login"
    /\ resp.status # 200
    /\ get_user_by_email(users, req.body.email) = None
    /\ \E u \in users, q \in Passwords : ~verify_password(q, u.hashed_password)

\* The token is one this service signed for one of its users.
Issued(t) ==
    /\ t.form = "jws"
    /\ t.sig = Sign(t.payload, JWT_SECRET)
    /\ "sub" \in DOMAIN t.payload
    /\ t.payload.sub \in Emails

\* C6: a token issued for subject s with any lifetime of one minute or more
\* is accepted before its expiry and resolves to the user whose email is s:
\* both the token of the last Token reply, checked now, and the token a
\* protected request carried.
C6_FreshTokenAccepted ==
    /\ (req.op \in {"register", "login"} /\ resp.status = 200
        /\ now < resp.body.expires_at)
       => LET auth == get_current_user(resp.body.access_token, now, users) IN
          /\ auth.status = 200
          /\ auth.user.email = req.body.email
    /\ (req.op = "list_resumes" /\ Issued(req.header)
        /\ timestamp(req.at) < req.header.payload.exp)
       => /\ resp.status = 200
          /\ req.current_user # None
          /\ req.current_user.email = req.header.payload.sub

\* A token with the longest lifetime was presented in the second it was
\* issued and the request went through.
C6_Witness ==
    /\ req.op = "list_resumes"
    /\ Issued(req.header)
    /\ timestamp(req.at) = req.header.payload.iat
    /\ expire_min = MaxTtl
    /\ resp.status = 200

\* C7: a token presented at or after the expires_at of its Token reply is
\* rejected.
C7_RejectedFromExpiry ==
    \A c \in Clients :
       (/\ req.op = "list_resumes"
        /\ jar[c] # NoToken
        /\ req.header = jar[c].access_token
        /\ req.at >= jar[c].expires_at)
       => resp.status = 401

\* Why a header fails authentication, read off the header itself.
FailureDetail(h, clock, tbl) ==
    IF h = NoHeader THEN "Not authenticated"
    ELSE IF h = EmptyToken THEN "Missing token"
    ELSE IF \/ h.form # "jws"
            \/ h.sig # Sign(h.payload, JWT_SECRET)
            \/ h.payload.exp < timestamp(clock)
    THEN "Invalid or expired token"
    ELSE IF "sub" \notin DOMAIN h.payload THEN "Invalid token"
    ELSE IF \A u \in tbl : u.email # h.payload.sub THEN "User not found"
    ELSE "none"

\* C8 as stated: every authentication failure has one and the same status
\* and detail, so the reply to the last failed request is the reply every
\* failing header would get now.
C8_OneFailureOutcome ==
    (req.op = "list_resumes" /\ req.current_user = None)
    => \A c \in Clients : \A h \in Headers(c) :
          LET auth == get_current_user(h, now, users) IN
          auth.status # 200
          => (auth.status = resp.status /\ auth.detail = resp.detail)

\* C8 amended: every authentication failure has the status 401 and no body;
\* the detail names one of five groups of causes.
C8_OneFailureStatus ==
    /\ (req.op = "list_resumes" /\ req.current_user = None)
       => /\ resp.status = 401
          /\ resp.body = None
          /\ resp.detail = FailureDetail(req.header, req.at, users)
          /\ resp.detail # "none"
    /\ \A c \in Clients : \A h \in Headers(c) :
          get_current_user(h, now, users).status \in {200, 401}

\* A validly signed token whose subject has no user row was turned away.
C8_Witness ==
    /\ req.op = "list_resumes"
    /\ req.current_user = None
    /\ resp = HTTPException(401, "User not found")
\* What an update leaves of a row: each supplied non-null field of the body,
\* and the row's own value everywhere else.
Updated(old, raw) ==
    [old EXCEPT !.title   = IF raw.title # Null THEN raw.title ELSE @,
                !.content = IF raw.content # Null THEN raw.content ELSE @]

\* C11: a successful update_resume by the owner replaces the row with that id
\* by the same row with exactly the non-null fields of the body changed: the
\* null fields, the id and the owner keep their value, and every other row of
\* the table stays as it was.
C11_UpdateChangesSuppliedFields ==
    [][(req'.op = "update_resume" /\ resp'.status = 200)
       => \E old \in resumes :
            /\ old.id = req'.res_id
            /\ old.user_id = req'.current_user.id
            /\ resumes' = (resumes \ {old}) \cup {Updated(old, req'.body)}
            /\ resp'.body = ResumeOut(Updated(old, req'.body))]_vars

\* The owner sent a new title and no content: the title is the new one, the
\* content is still the one the resume was created with, and another resume
\* sits in the table.
C11_Witness ==
    /\ Handled({"update_resume"})
    /\ resp.status = 200
    /\ req.body.title = "T2" /\ req.body.content = Null
    /\ resp.body.title = "T2" /\ resp.body.content = "C1"
    /\ Cardinality(resumes) = MaxResumes

\* C12: a successful create_resume adds one row, the one it returns, and that
\* row belongs to the user the token resolved to, whatever the body carries.
C12_CreatedForCaller ==
    [][(req'.op = "create_resume" /\ resp'.status = 201)
       => \E r \in resumes' \ resumes :
            /\ resumes' = resumes \cup {r}
            /\ r.user_id = req'.current_user.id
            /\ r.title = req'.body.title /\ r.content = req'.body.content
            /\ resp'.body = ResumeOut(r)]_vars

\* The body named another user as the owner; the new row is the caller's.
C12_Witness ==
    /\ Handled({"create_resume"})
    /\ resp.status = 201
    /\ "user_id" \in DOMAIN req.body
    /\ req.body.user_id # req.current_user.id
    /\ \E r \in resumes : r.id = resp.body.id /\ r.user_id = req.current_user.id

\* C16: from one state to the next a resume that is still in the table has
\* the owner it had, and a row that appears carries an id never used before:
\* a resume keeps the owner it was created with until it is deleted.
C16_OwnerNeverChanges ==
    [][/\ \A r \in resumes : \A r2 \in resumes' :
            r2.id = r.id => r2.user_id = r.user_id
       /\ \A r2 \in resumes' :
            (\A r \in resumes : r.id # r2.id) => r2.id > resume_id_seq]_vars

\* An update whose body named another user as the owner went through, and the
\* resume is still the caller's.
C16_Witness ==
    /\ Handled({"update_resume"})
    /\ resp.status = 200
    /\ "user_id" \in DOMAIN req.body
    /\ req.body.user_id # req.current_user.id
    /\ \E r \in resumes : r.id = req.res_id /\ r.user_id = req.current_user.id
ResumeOps ==
    {"list_resumes", "create_resume", "get_resume", "improve_resume",
     "update_resume", "delete_resume"}

\* C13: a request to a resume route is handled only when its header carries a
\* token that is well formed, signed with the secret, not expired and names
\* the email of an existing user, and then under exactly that user: every row
\* written or removed is that user's. With no token, a rejected token or a
\* subject without a user the reply is 401, no ResumeDAO method is invoked
\* and the resume table and its id sequence stay as they were.
C13_GuardBeforeResumes ==
    [][req'.op \in ResumeOps
       => LET h == req'.header IN
          IF FailureDetail(h, now, users) = "none"
          THEN LET u == CHOOSE x \in users : x.email = h.payload.sub IN
               /\ req'.current_user = u
               /\ \A r \in (resumes \ resumes') \cup (resumes' \ resumes) :
                     r.user_id = u.id
          ELSE /\ resp'.status = 401
               /\ req'.current_user = None
               /\ \A k \in 1 .. Len(calls') : calls'[k] \notin ResumeDAOCalls
               /\ resumes' = resumes
               /\ resume_id_seq' = resume_id_seq]_vars

\* A delete for the id of an existing resume came with a token signed with
\* the secret whose subject has no user: refused, and the resume is there.
C13_Witness ==
    /\ req.op = "delete_resume"
    /\ req.header \in ForeignTokens
    /\ resp = HTTPException(401, "User not found")
    /\ \E r \in resumes : r.id = req.res_id
\* C14: the user table never holds two rows with one email, whichever way
\* the steps of registrations in flight interleave.
C14_OneCredentialPerEmail ==
    \A u1 \in users : \A u2 \in users : u1.email = u2.email => u1 = u2

\* Two registrations of one email both passed the lookup before either
\* insert; both are answered, and the table holds one row for the email.
C14_Witness ==
    \E k1 \in RegIds : \E k2 \in RegIds \ {k1} :
       /\ inflight[k1].stage = "done" /\ inflight[k2].stage = "done"
       /\ inflight[k1].body.email = inflight[k2].body.email
       /\ inflight[k1].reply.status = 200
       /\ inflight[k2].reply.status = 500
       /\ Cardinality({u \in users : u.email = inflight[k1].body.email}) = 1

\* C15: among the valid registrations sent for one email, each one answered
\* got a token or DuplicateEmail and nothing else, at most one got a token,
\* and once all are answered exactly one did.
C15_TokenOrDuplicate ==
    \A e \in Emails :
       LET sent   == {k \in RegIds : /\ inflight[k].stage # "idle"
                                     /\ inflight[k].body.email = e
                                     /\ UserRegistration_valid(inflight[k].body)}
           done   == {k \in sent : inflight[k].stage = "done"}
           tokens == {k \in done : inflight[k].reply.status = 200}
       IN  /\ \A k \in done \ tokens :
                 inflight[k].reply = HTTPException(400, DuplicateEmail)
           /\ Cardinality(tokens) <= 1
           /\ (sent # {} /\ done = sent) => Cardinality(tokens) = 1
====
